---- MODULE Spec2Model ----
(***************************************************************************)
(* Ticket lifecycle (tickets/repository/ticket.py) and team membership     *)
(* (tickets/routers/team_user.py) of the TicketSystem service, as a state  *)
(* machine over the relational store.                                      *)
(*                                                                         *)
(* A handler takes no lock and checks no version: between its query and    *)
(* its commit, and between its commit and the read that builds its answer, *)
(* other calls commit.  A handler is therefore a sequence of steps, one    *)
(* per stretch of code that meets the store once, and the calls that stand *)
(* between two steps are part of the state.  A handler that raises leaves  *)
(* the store as it was (its session is never committed).                   *)
(*                                                                         *)
(* Optional values (Python None / a value) are sequences of length 0 / 1.  *)
(* Strings that the code inspects (names, feedback) are kept as values the *)
(* model can take apart: a name is a sequence of one-character strings.    *)
(* Ticket.title, description and priority are copied from the request and  *)
(* never read by any handler; they are left out of the ticket record.      *)
(*                                                                         *)
(* A stretch of a handler is an operator from its arguments and the store  *)
(* to its outcome (status and committed store), or to the set of its       *)
(* outcomes where a query's .first() or user.teams[0] has no order to go   *)
(* by.  Every datetime.now() that is stored is a new tick of the clock.    *)
(*                                                                         *)
(* Spec runs the handlers of repository/ticket.py over a store whose       *)
(* memberships and availability stand; TeamSpec runs the membership        *)
(* handlers of routers/team_user.py, AvailabilitySpec its availability    *)
(* handler.                                                                *)
(***************************************************************************)
EXTENDS Integers, Sequences, FiniteSets, Bags, TLC

VARIABLES
    users,          \* User rows: id -> [is_available]
    user_teams,     \* UserTeam rows: [user_id, team_id, role, joined_at]
    tickets,        \* Ticket rows: id -> record, for the ids that exist
    next_id,        \* the next primary key of the ticket table
    clock,          \* the last value datetime.now() returned
    resp,           \* the response on its way to the caller: [op, code, detail]
    calls,          \* the calls of repository/ticket.py between two steps (a bag)
    team_calls      \* the calls of routers/team_user.py between two steps (a bag)

vars == <<users, user_teams, tickets, next_id, clock, resp, calls, team_calls>>

\* ------------------------------------------------------------------ bounds
MaxTickets == 1
MaxClock == 4
MaxCalls == 2       \* calls between two steps at a time

\* ------------------------------------------------------- optional values
None == <<>>
Some(x) == <<x>>

\* Python truthiness: None, the integer 0 and the empty string are falsy.
TruthyInt(opt) == opt # None /\ opt[1] # 0
TruthyStr(opt) == opt # None /\ opt[1] # ""
TruthyName(opt) == opt # None /\ opt[1] # <<>>

\* ------------------------------------------------------- the fixed rows
\* Rows of tables that no handler of these files writes.
Users == {1, 2, 3}
Teams == {1, 2}
ProjectIds == {1, 2}

UserNameOf == <<
    <<"A", "l">>,
    <<"a", "l", "b", "a">>,
    <<"B", "o">> >>

\* Project.worker_team_id
ProjectWorkerTeam == << Some(7), None >>

\* ProjectUser rows; (user_id, project_id) is unique.
ProjectUsers == {
    [user_id |-> 1, project_id |-> 1, role |-> "admin"],
    [user_id |-> 2, project_id |-> 1, role |-> "member"],
    [user_id |-> 2, project_id |-> 2, role |-> "admin"],
    [user_id |-> 3, project_id |-> 2, role |-> "worker"] }

\* ------------------------------------------------------- enums
TicketStatus == {"open", "in_progress", "closed"}
TicketType == {"worker", "other"}
TeamRole == {"admin", "member"}

\* ------------------------------------------------------- outcomes
\* The outcome of a stretch of a handler: a status and the store it leaves
\* committed.
Store ==
    [users |-> users, user_teams |-> user_teams, tickets |-> tickets,
     next_id |-> next_id, clock |-> clock]

\* raise HTTPException(code, detail): nothing is committed.
Raise(code, detail) == [code |-> code, detail |-> detail, store |-> Store]

\* db.commit(); code is the status the handler answers when it gets through
\* what follows the commit.
Commit(code, store) == [code |-> code, detail |-> "", store |-> store]

\* ------------------------------------------------------- queries
\* db.query(Ticket).filter_by(id=ticket_id, project_id=project_id).first()
QueryTicket(ticket_id, project_id) ==
    IF ticket_id \in DOMAIN tickets /\ tickets[ticket_id].project_id = project_id
    THEN Some(tickets[ticket_id])
    ELSE None

\* db.query(ProjectUser).filter_by(user_id=..., project_id=...)
ProjectLinks(user_id, project_id) ==
    {pu \in ProjectUsers : pu.user_id = user_id /\ pu.project_id = project_id}

\* user.teams: the teams of the user's UserTeam rows
TeamsOfUser(user_id) ==
    {ut.team_id : ut \in {r \in user_teams : r.user_id = user_id}}

\* ------------------------------------------------------- CREATE
\* Column defaults of models.Ticket for the fields create_ticket does not pass.
TicketDefaults ==
    [status |-> "open", feedback |-> None, confirmed |-> FALSE,
     closed_at |-> None, updated_at |-> None]

\* lower(): the letters A-Z fold to a-z, every other character stands.
UpperLetters ==
    << "A", "B", "C", "D", "E", "F", "G", "H", "I", "J", "K", "L", "M",
       "N", "O", "P", "Q", "R", "S", "T", "U", "V", "W", "X", "Y", "Z" >>
LowerLetters ==
    << "a", "b", "c", "d", "e", "f", "g", "h", "i", "j", "k", "l", "m",
       "n", "o", "p", "q", "r", "s", "t", "u", "v", "w", "x", "y", "z" >>

Lower(c) ==
    IF \E k \in 1..Len(UpperLetters) : UpperLetters[k] = c
    THEN LowerLetters[CHOOSE k \in 1..Len(UpperLetters) : UpperLetters[k] = c]
    ELSE c

\* lower(s) LIKE lower(p): % stands for any run of characters, the empty one
\* included, _ for exactly one character, any other character for itself.
RECURSIVE Like(_, _)
Like(s, p) ==
    IF p = <<>> THEN s = <<>>
    ELSE IF Head(p) = "%"
         THEN Like(s, Tail(p)) \/ (s # <<>> /\ Like(Tail(s), p))
    ELSE IF s = <<>> THEN FALSE
    ELSE IF Head(p) = "_" THEN Like(Tail(s), Tail(p))
    ELSE Lower(Head(s)) = Lower(Head(p)) /\ Like(Tail(s), Tail(p))

\* name.ilike(f"%{assignee_name}%"): the name goes into the pattern as it is,
\* so a % or _ in it is a wildcard too.
ILike(name, assignee_name) ==
    Like(name, <<"%">> \o assignee_name \o <<"%">>)

\* The ids _resolve_assignee can return: {None} for no name, else the project's
\* members whose name matches (.first() has no ORDER BY: any of them); {} is the 404.
_resolve_assignee(assignee_name, project_id) ==
    IF ~TruthyName(assignee_name) THEN {None}
    ELSE {Some(u) : u \in {v \in Users :
              /\ ProjectLinks(v, project_id) # {}
              /\ ILike(UserNameOf[v], assignee_name[1])}}

\* team_id = team_id or ticket_in.team_id
EffectiveTeam(team_id, ticket_in) ==
    IF TruthyInt(team_id) THEN team_id ELSE ticket_in.team_id

NoTeamError_NotFound == Raise(404, "Team ID must be provided")

\* The status and detail of the exception raised when no team is given and the
\* actor has none (line 43).
NoTeamError == Raise(400, "Team ID must be provided")

WorkerTeamFor_NoDefault(ticket_in, project_id) ==
    LET configured == ProjectWorkerTeam[project_id] IN
    IF ticket_in.worker_team_id # None THEN
        IF configured # ticket_in.worker_team_id
        THEN [ok |-> FALSE, worker_team_id |-> None,
              detail |-> "Worker team not assigned to this project"]
        ELSE [ok |-> TRUE, worker_team_id |-> ticket_in.worker_team_id, detail |-> ""]
    ELSE [ok |-> TRUE, worker_team_id |-> None, detail |-> ""]

\* The worker-team branch (lines 67-75): [ok, worker_team_id, detail].
WorkerTeamFor(ticket_in, project_id) ==
    LET configured == ProjectWorkerTeam[project_id] IN
    IF ticket_in.worker_team_id # None THEN
        IF configured # ticket_in.worker_team_id
        THEN [ok |-> FALSE, worker_team_id |-> None,
              detail |-> "Worker team not assigned to this project"]
        ELSE [ok |-> TRUE, worker_team_id |-> ticket_in.worker_team_id, detail |-> ""]
    ELSE IF ticket_in.type = "worker" THEN
        IF ~TruthyInt(configured)
        THEN [ok |-> FALSE, worker_team_id |-> None,
              detail |-> "No worker team assigned to project"]
        ELSE [ok |-> TRUE, worker_team_id |-> configured, detail |-> ""]
    ELSE [ok |-> TRUE, worker_team_id |-> None, detail |-> ""]

\* models.Ticket(...) of lines 77-87
NewTicket(ticket_in, user_id, project_id, team, assigned, worker_team) ==
    [type |-> ticket_in.type,
     created_by |-> user_id,
     assigned_to |-> assigned,
     worker_team_id |-> worker_team,
     team_id |-> team,
     project_id |-> project_id,
     status |-> TicketDefaults.status,
     feedback |-> TicketDefaults.feedback,
     confirmed |-> TicketDefaults.confirmed,
     closed_at |-> TicketDefaults.closed_at,
     updated_at |-> TicketDefaults.updated_at]

\* create_ticket from the lookup of the team (line 46) to the commit.
CreateInTeam(ticket_in, user_id, project_id, team) ==
    IF team \notin Teams THEN {Raise(404, "Team not found")}
    ELSE IF project_id \notin ProjectIds THEN {Raise(404, "Project not found")}
    ELSE IF ProjectLinks(user_id, project_id) = {}
    THEN {Raise(403, "You are not a member of this project")}
    ELSE IF _resolve_assignee(ticket_in.assigned_to_name, project_id) = {}
    THEN {Raise(404, "Assignee not found in this project")}
    ELSE LET wt == WorkerTeamFor(ticket_in, project_id) IN
         IF ~wt.ok THEN {Raise(400, wt.detail)}
         ELSE {Commit(201, [Store EXCEPT
                   !.tickets = tickets @@ (next_id :>
                       NewTicket(ticket_in, user_id, project_id, team, assigned,
                                 wt.worker_team_id)),
                   !.next_id = next_id + 1]) :
               assigned \in _resolve_assignee(ticket_in.assigned_to_name, project_id)}

\* The outcomes of create_ticket up to its commit (lines 39-89).  user.teams[0]
\* is the first row of a relationship the handler does not order: any of the
\* actor's teams.
create_ticket(ticket_in, user_id, project_id, team_id) ==
    LET eff == EffectiveTeam(team_id, ticket_in) IN
    IF eff = None THEN
        IF TeamsOfUser(user_id) = {} THEN {NoTeamError}
        ELSE UNION {CreateInTeam(ticket_in, user_id, project_id, t) :
                        t \in TeamsOfUser(user_id)}
    ELSE CreateInTeam(ticket_in, user_id, project_id, eff[1])


\* _load_ticket(db, ticket.id) once the handler has committed, and create_ticket's
\* db.refresh before it (lines 90-92, 191, 216): the ticket is read back.  A row
\* deleted since the commit makes the refresh, the read of ticket.id or
\* TicketOut.model_validate(None) raise; nothing catches it and the answer is 500.
_load_ticket(ticket_id, code) ==
    IF ticket_id \in DOMAIN tickets
    THEN Commit(code, Store)
    ELSE Raise(500, "Internal Server Error")

\* ------------------------------------------------------- calls in progress
\* What a feedback call carries when it carries none.
NoFeedback == [feedback |-> None, confirmed |-> FALSE]

\* A call of repository/ticket.py between two steps: the handler, the stretch
\* it stands before, the ticket it loaded, its arguments, and the feedback and
\* confirmed its query loaded.
TicketCall(op, at, ticket_id, current_user, status, update, loaded) ==
    [op |-> op, at |-> at, ticket_id |-> ticket_id, current_user |-> current_user,
     status |-> status, update |-> update, loaded |-> loaded]

\* A call that has committed and stands before _load_ticket.
LoadCall(op, ticket_id) ==
    TicketCall(op, "load", ticket_id, 0, "", NoFeedback, NoFeedback)

\* ------------------------------------------------------- UPDATE
ALLOWED_STATUS_TRANSITIONS ==
    [s \in TicketStatus |->
        CASE s = "open" -> {"in_progress"}
          [] s = "in_progress" -> {"closed"}
          [] s = "closed" -> {}]

NotAssignee_OrCreator(ticket, current_user) ==
    ticket.assigned_to # Some(current_user) /\ ticket.created_by # current_user

\* ticket.assigned_to != current_user.id
NotAssignee(ticket, current_user) == ticket.assigned_to # Some(current_user)

\* update_ticket_status_by_assignee from its query to its last check (lines
\* 172-184): the exception it raises, or None when it goes on to the write.
update_ticket_status_by_assignee_checks(ticket_id, project_id, status, current_user) ==
    LET found == QueryTicket(ticket_id, project_id) IN
    IF found = None THEN Some(Raise(404, "Ticket not found"))
    ELSE IF NotAssignee(found[1], current_user)
    THEN Some(Raise(403, "Only assignee can update"))
    ELSE IF status \notin ALLOWED_STATUS_TRANSITIONS[found[1].status]
    THEN Some(Raise(400, "Cannot go from " \o found[1].status \o " to " \o status))
    ELSE None

\* The row after the UPDATE of lines 186-190.  The flush writes the columns the
\* handler set to a value other than the loaded one: status (the checks passed,
\* so it differs), closed_at when closing, updated_at; the other columns of the
\* row stay as the store has them now.
WithStatus(ticket, status, now) ==
    [ticket EXCEPT !.status = status,
                   !.closed_at = IF status = "closed" THEN Some(now) ELSE @,
                   !.updated_at = Some(now)]

\* update_ticket_status_by_assignee from the write to the commit (lines
\* 186-190).  The UPDATE goes by primary key; when the row is gone it matches
\* nothing, the flush raises StaleDataError and the answer is 500.
update_ticket_status_by_assignee_commit(call) ==
    IF call.ticket_id \notin DOMAIN tickets
    THEN Raise(500, "Internal Server Error")
    ELSE Commit(200, [Store EXCEPT
             !.tickets[call.ticket_id] = WithStatus(@, call.status, clock + 1),
             !.clock = clock + 1])

\* ticket.status.name != "closed"
NotClosed(ticket) == ticket.status # "closed"

\* leave_feedback_by_creator from its query to its last check (lines 200-210).
leave_feedback_by_creator_checks(ticket_id, project_id, current_user) ==
    LET found == QueryTicket(ticket_id, project_id) IN
    IF found = None THEN Some(Raise(404, "Ticket not found"))
    ELSE IF found[1].created_by # current_user
    THEN Some(Raise(403, "Only creator can leave feedback"))
    ELSE IF NotClosed(found[1]) THEN Some(Raise(400, "Feedback only after close"))
    ELSE None

\* update.feedback or ticket.feedback
FeedbackOr(new, old) == IF TruthyStr(new) THEN new ELSE old

\* The row after the UPDATE of lines 212-215.  ticket is the row as the store
\* has it now, loaded the feedback and confirmed the call's query read.  The
\* flush writes a column only when the value the handler set differs from the
\* loaded one; updated_at always does.
WithFeedback(ticket, update, loaded, now) ==
    LET feedback == FeedbackOr(update.feedback, loaded.feedback) IN
    [ticket EXCEPT !.feedback = IF feedback # loaded.feedback THEN feedback ELSE @,
                   !.confirmed = IF update.confirmed # loaded.confirmed
                                 THEN update.confirmed ELSE @,
                   !.updated_at = Some(now)]

\* leave_feedback_by_creator from the write to the commit (lines 212-215).
leave_feedback_by_creator_commit(call) ==
    IF call.ticket_id \notin DOMAIN tickets
    THEN Raise(500, "Internal Server Error")
    ELSE Commit(200, [Store EXCEPT
             !.tickets[call.ticket_id] =
                 WithFeedback(@, call.update, call.loaded, clock + 1),
             !.clock = clock + 1])

\* The first query of update_ticket_assignee: an admin row of the target user.
IsAdminLink(assigned_to, project_id) ==
    \E pu \in ProjectLinks(assigned_to, project_id) : pu.role = "admin"

AssignableRoles_WithAdmin == {"admin", "member", "worker"}

\* (ProjectRole.member, WorkerRole.worker)
AssignableRoles == {"member", "worker"}

\* The rows role_link can be: None, or any row of the pair (.first()).
RoleLinks(assigned_to, project_id) ==
    IF ProjectLinks(assigned_to, project_id) = {} THEN {None}
    ELSE {Some(pu) : pu \in ProjectLinks(assigned_to, project_id)}

\* not user or not user.is_available
UserUnavailable(assigned_to) ==
    assigned_to \notin Users \/ ~users[assigned_to].is_available

\* update_ticket_assignee from the second query (line 244) on.
AssignWithLink(ticket_id, assigned_to, role_link) ==
    IF role_link = None \/ role_link[1].role \notin AssignableRoles
    THEN Raise(403, "Must be member or worker")
    ELSE IF UserUnavailable(assigned_to) THEN Raise(400, "User not available")
    ELSE Commit(200, [Store EXCEPT !.tickets[ticket_id].assigned_to = Some(assigned_to)])

\* The outcomes of update_ticket_assignee.  After the ticket it reads ProjectUser
\* rows, which no handler writes.
update_ticket_assignee(ticket_id, assigned_to, project_id) ==
    LET found == QueryTicket(ticket_id, project_id) IN
    IF found = None THEN {Raise(404, "Ticket not found")}
    ELSE IF ~IsAdminLink(assigned_to, project_id)
    THEN {Raise(403, "Only project admin can reassign")}
    ELSE {AssignWithLink(ticket_id, assigned_to, role_link) :
              role_link \in RoleLinks(assigned_to, project_id)}

\* ------------------------------------------------------- DELETE
\* is_creator or is_admin
MayDelete(ticket, project_id, current_user) ==
    \/ ticket.created_by = current_user
    \/ \E pu \in ProjectUsers :
          pu.user_id = current_user /\ pu.project_id = project_id /\ pu.role = "admin"

\* delete_ticket from its query to its last check (lines 269-283).
delete_ticket_checks(ticket_id, project_id, current_user) ==
    LET found == QueryTicket(ticket_id, project_id) IN
    IF found = None THEN Some(Raise(404, "Ticket not found"))
    ELSE IF ~MayDelete(found[1], project_id, current_user)
    THEN Some(Raise(403, "Not permitted"))
    ELSE None

\* delete_ticket from db.delete to the commit (lines 285-286).  A DELETE that
\* matches no row is a warning of the session, not an exception.
delete_ticket_commit(call) ==
    Commit(204, [Store EXCEPT
        !.tickets = [t \in DOMAIN tickets \ {call.ticket_id} |-> tickets[t]]])

\* ------------------------------------------------------- TEAM MEMBERS
\* A call of routers/team_user.py between two steps.  joined_at is the stamp of
\* the row it inserted; had_row tells whether the pair had a row when the call
\* arrived.
TeamCall(op, at, user_id, team_id, role, joined_at, had_row) ==
    [op |-> op, at |-> at, user_id |-> user_id, team_id |-> team_id,
     role |-> role, joined_at |-> joined_at, had_row |-> had_row]

\* _ensure_team_admin passes
IsTeamAdmin(current_user, team_id) ==
    \E ut \in user_teams :
        ut.user_id = current_user /\ ut.team_id = team_id /\ ut.role = "admin"

\* _ensure_team_admin(current_user, team_id) (lines 20-22, called at 114 and
\* 139): the exception it raises, or None.
_ensure_team_admin(current_user, team_id) ==
    IF ~IsTeamAdmin(current_user, team_id)
    THEN Some(Raise(403, "Requires team admin role."))
    ELSE None

\* db.query(UserTeam).filter_by(user_id=user_id, team_id=team_id)
Memberships(user_id, team_id) ==
    {ut \in user_teams : ut.user_id = user_id /\ ut.team_id = team_id}

\* exists = ....first()
MembershipExists(user_id, team_id) == Memberships(user_id, team_id) # {}

\* add_user_to_team's query and check (lines 115-117).
add_user_to_team_exists(call) ==
    IF MembershipExists(call.user_id, call.team_id)
    THEN Some(Raise(400, "User already in team"))
    ELSE None

\* The row add_user_to_team builds (lines 118-123).
Association(call, now) ==
    [user_id |-> call.user_id, team_id |-> call.team_id, role |-> call.role,
     joined_at |-> now]

\* add_user_to_team from the insert to the commit (lines 118-125).  When a row
\* of the pair was committed since the query, what the INSERT does is the
\* table's to say, and models.UserTeam is not in these files: it adds a second
\* row of the pair, or the pair is a key and db.commit() raises IntegrityError,
\* which nothing catches (500).
add_user_to_team_commit(call) ==
    LET inserted == Commit(201, [Store EXCEPT
                        !.user_teams = user_teams \cup {Association(call, clock + 1)},
                        !.clock = clock + 1])
    IN  IF MembershipExists(call.user_id, call.team_id)
        THEN {inserted, Raise(500, "Internal Server Error")}
        ELSE {inserted}

\* db.refresh(association) and return (lines 126-127).  With the call's row in
\* the table the answer is 201, with no row of the pair the refresh raises
\* (500); with another row of the pair in its place it is the one or the other,
\* as the table's key has it.
add_user_to_team_refresh(call) ==
    IF Association(call, call.joined_at) \in user_teams THEN {Commit(201, Store)}
    ELSE IF Memberships(call.user_id, call.team_id) = {}
    THEN {Raise(500, "Internal Server Error")}
    ELSE {Commit(201, Store), Raise(500, "Internal Server Error")}

\* remove_user_from_team from the DELETE to the end (lines 140-148).
remove_user_from_team_delete(call) ==
    IF Memberships(call.user_id, call.team_id) = {}
    THEN Raise(404, "User not in this team")
    ELSE Commit(204, [Store EXCEPT
             !.user_teams = user_teams \ Memberships(call.user_id, call.team_id)])

\* A call of update_my_availability between two steps: the stretch it stands
\* before, the caller, its argument, and the is_available that came with
\* current_user (line 95).
AvailabilityCall(at, current_user, is_available, loaded) ==
    [op |-> "update_my_availability", at |-> at, current_user |-> current_user,
     is_available |-> is_available, loaded |-> loaded]

\* update_my_availability from the assignment to the commit (lines 97-98).  The
\* flush writes is_available only when the value set differs from the loaded
\* one; else the row stays as the store has it now.  No handler deletes a user.
update_my_availability_commit(call) ==
    Commit(200, [Store EXCEPT
        !.users[call.current_user].is_available =
            IF call.is_available # call.loaded THEN call.is_available ELSE @])

\* db.refresh(current_user) and return (lines 99-100).
update_my_availability_refresh(call) == Commit(200, Store)

\* ------------------------------------------------------- request inputs
ProjectIdInputs == ProjectIds \cup {3}          \* 3: no such project
TeamOverrides == {None, Some(3)}                \* 3: no such team
TicketTeams == {None, Some(1)}
AssigneeNames ==
    {None, Some(<<>>), Some(<<"B">>), Some(<<"z">>),
     Some(<<"O">>), Some(<<"%">>), Some(<<"b", "_">>)}
WorkerTeamInputs == {None, Some(7)}
TicketCreate == [type : TicketType, team_id : TicketTeams,
                 assigned_to_name : AssigneeNames, worker_team_id : WorkerTeamInputs]
FeedbackInputs == {None, Some(""), Some("good"), Some("bad")}
TicketFeedbackUpdate == [feedback : FeedbackInputs, confirmed : BOOLEAN]
TicketIdInputs == 1..MaxTickets
AssigneeInputs == Users \cup {4}                \* 4: no such user

\* ------------------------------------------------------- the state machine
NoResponse == [op |-> "none", code |-> 0, detail |-> ""]

Init ==
    /\ users = [u \in Users |-> [is_available |-> (u = 1)]]
    /\ user_teams = {
          [user_id |-> 1, team_id |-> 1, role |-> "admin", joined_at |-> 0],
          [user_id |-> 2, team_id |-> 1, role |-> "member", joined_at |-> 0],
          [user_id |-> 2, team_id |-> 2, role |-> "member", joined_at |-> 0] }
    /\ tickets = << >>
    /\ next_id = 1
    /\ clock = 0
    /\ resp = NoResponse
    /\ calls = EmptyBag
    /\ team_calls = EmptyBag

\* No response is on its way.  A step waits for the response before it to be
\* received; the response is read by no handler, so this holds no call back.
Idle == resp = NoResponse

\* The store becomes the one an outcome commits.  The clock stops at MaxClock:
\* no call stamps a later time.
Committed(outcome) ==
    /\ outcome.store.clock <= MaxClock
    /\ users' = outcome.store.users
    /\ user_teams' = outcome.store.user_teams
    /\ tickets' = outcome.store.tickets
    /\ next_id' = outcome.store.next_id
    /\ clock' = outcome.store.clock

\* A call ends: what it committed stands and its response goes out.
Answer(op, outcome) ==
    /\ Committed(outcome)
    /\ resp' = [op |-> op, code |-> outcome.code, detail |-> outcome.detail]

\* A call goes on to its next stretch: nothing is answered yet.
GoOn(outcome) ==
    /\ Committed(outcome)
    /\ UNCHANGED resp

\* Room for one more call between two steps.
Room(bag) == BagCardinality(bag) < MaxCalls

\* The caller receives the response.
Deliver ==
    /\ resp # NoResponse
    /\ resp' = NoResponse
    /\ UNCHANGED <<users, user_teams, tickets, next_id, clock, calls, team_calls>>

\* create_ticket arrives and runs to its commit (lines 39-89).
CreateTicketRequest ==
    /\ Idle
    /\ next_id <= MaxTickets
    /\ \E ticket_in \in TicketCreate, user_id \in Users,
          project_id \in ProjectIdInputs, team_id \in TeamOverrides :
         \E o \in create_ticket(ticket_in, user_id, project_id, team_id) :
            IF o.code = 201
            THEN /\ Room(calls)
                 /\ GoOn(o)
                 /\ calls' = calls (+) SetToBag({LoadCall("create_ticket", next_id)})
            ELSE /\ Answer("create_ticket", o)
                 /\ UNCHANGED calls
    /\ UNCHANGED team_calls

\* update_ticket_status_by_assignee arrives and runs its checks (lines 172-184).
UpdateStatusRequest ==
    /\ Idle
    /\ \E ticket_id \in TicketIdInputs, project_id \in ProjectIds,
          status \in TicketStatus, current_user \in Users :
         LET raised == update_ticket_status_by_assignee_checks(
                           ticket_id, project_id, status, current_user) IN
         IF raised # None
         THEN /\ Answer("update_ticket_status_by_assignee", raised[1])
              /\ UNCHANGED calls
         ELSE /\ Room(calls)
              /\ calls' = calls (+) SetToBag({
                     TicketCall("update_ticket_status_by_assignee", "write", ticket_id,
                                current_user, status, NoFeedback, NoFeedback)})
              /\ UNCHANGED <<users, user_teams, tickets, next_id, clock, resp>>
    /\ UNCHANGED team_calls

\* A status call that passed its checks writes and commits (lines 186-190).
UpdateStatusCommit ==
    /\ Idle
    /\ \E call \in BagToSet(calls) :
         /\ call.op = "update_ticket_status_by_assignee"
         /\ call.at = "write"
         /\ LET o == update_ticket_status_by_assignee_commit(call) IN
            IF o.code = 200
            THEN /\ GoOn(o)
                 /\ calls' = (calls (-) SetToBag({call}))
                                 (+) SetToBag({LoadCall(call.op, call.ticket_id)})
            ELSE /\ Answer(call.op, o)
                 /\ calls' = calls (-) SetToBag({call})
    /\ UNCHANGED team_calls

\* leave_feedback_by_creator arrives and runs its checks (lines 200-210).
LeaveFeedbackRequest ==
    /\ Idle
    /\ \E ticket_id \in TicketIdInputs, project_id \in ProjectIds,
          update \in TicketFeedbackUpdate, current_user \in Users :
         LET raised == leave_feedback_by_creator_checks(ticket_id, project_id,
                                                        current_user) IN
         IF raised # None
         THEN /\ Answer("leave_feedback_by_creator", raised[1])
              /\ UNCHANGED calls
         ELSE /\ Room(calls)
              /\ calls' = calls (+) SetToBag({
                     TicketCall("leave_feedback_by_creator", "write", ticket_id,
                                current_user, "", update,
                                [feedback |-> tickets[ticket_id].feedback,
                                 confirmed |-> tickets[ticket_id].confirmed])})
              /\ UNCHANGED <<users, user_teams, tickets, next_id, clock, resp>>
    /\ UNCHANGED team_calls

\* A feedback call that passed its checks writes and commits (lines 212-215).
LeaveFeedbackCommit ==
    /\ Idle
    /\ \E call \in BagToSet(calls) :
         /\ call.op = "leave_feedback_by_creator"
         /\ call.at = "write"
         /\ LET o == leave_feedback_by_creator_commit(call) IN
            IF o.code = 200
            THEN /\ GoOn(o)
                 /\ calls' = (calls (-) SetToBag({call}))
                                 (+) SetToBag({LoadCall(call.op, call.ticket_id)})
            ELSE /\ Answer(call.op, o)
                 /\ calls' = calls (-) SetToBag({call})
    /\ UNCHANGED team_calls

\* A call that committed reads its ticket back and answers (lines 90-92, 191,
\* 216): 201 for create_ticket, 200 for the updates.
LoadTicket ==
    /\ Idle
    /\ \E call \in BagToSet(calls) :
         /\ call.at = "load"
         /\ Answer(call.op, _load_ticket(call.ticket_id,
                                         IF call.op = "create_ticket" THEN 201 ELSE 200))
         /\ calls' = calls (-) SetToBag({call})
    /\ UNCHANGED team_calls

\* update_ticket_assignee, whole: every path of it ends in an exception before
\* it writes.
UpdateAssigneeRequest ==
    /\ Idle
    /\ \E ticket_id \in TicketIdInputs, assigned_to \in AssigneeInputs,
          project_id \in ProjectIds :
         \E o \in update_ticket_assignee(ticket_id, assigned_to, project_id) :
            Answer("update_ticket_assignee", o)
    /\ UNCHANGED <<calls, team_calls>>

\* delete_ticket arrives and runs its checks (lines 269-283).
DeleteTicketRequest ==
    /\ Idle
    /\ \E ticket_id \in TicketIdInputs, project_id \in ProjectIds, current_user \in Users :
         LET raised == delete_ticket_checks(ticket_id, project_id, current_user) IN
         IF raised # None
         THEN /\ Answer("delete_ticket", raised[1])
              /\ UNCHANGED calls
         ELSE /\ Room(calls)
              /\ calls' = calls (+) SetToBag({
                     TicketCall("delete_ticket", "write", ticket_id, current_user,
                                "", NoFeedback, NoFeedback)})
              /\ UNCHANGED <<users, user_teams, tickets, next_id, clock, resp>>
    /\ UNCHANGED team_calls

\* A delete call that passed its checks deletes, commits and answers (lines
\* 285-286).
DeleteTicketCommit ==
    /\ Idle
    /\ \E call \in BagToSet(calls) :
         /\ call.op = "delete_ticket"
         /\ call.at = "write"
         /\ Answer(call.op, delete_ticket_commit(call))
         /\ calls' = calls (-) SetToBag({call})
    /\ UNCHANGED team_calls

\* add_user_to_team arrives and runs _ensure_team_admin (line 114).
AddUserRequest ==
    /\ Idle
    /\ \E user_id \in Users, team_id \in Teams, role \in TeamRole, current_user \in Users :
         LET raised == _ensure_team_admin(current_user, team_id) IN
         IF raised # None
         THEN /\ Answer("add_user_to_team", raised[1])
              /\ UNCHANGED team_calls
         ELSE /\ Room(team_calls)
              /\ team_calls' = team_calls (+) SetToBag({
                     TeamCall("add_user_to_team", "query", user_id, team_id, role, 0,
                              MembershipExists(user_id, team_id))})
              /\ UNCHANGED <<users, user_teams, tickets, next_id, clock, resp>>
    /\ UNCHANGED calls

\* An add call looks for a row of the pair (lines 115-117).
AddUserQuery ==
    /\ Idle
    /\ \E call \in BagToSet(team_calls) :
         /\ call.op = "add_user_to_team"
         /\ call.at = "query"
         /\ LET raised == add_user_to_team_exists(call) IN
            IF raised # None
            THEN /\ Answer(call.op, raised[1])
                 /\ team_calls' = team_calls (-) SetToBag({call})
            ELSE /\ team_calls' = (team_calls (-) SetToBag({call}))
                                      (+) SetToBag({[call EXCEPT !.at = "insert"]})
                 /\ UNCHANGED <<users, user_teams, tickets, next_id, clock, resp>>
    /\ UNCHANGED calls

\* An add call that found no row inserts its own and commits (lines 118-125).
AddUserInsert ==
    /\ Idle
    /\ \E call \in BagToSet(team_calls) :
         /\ call.op = "add_user_to_team"
         /\ call.at = "insert"
         /\ \E o \in add_user_to_team_commit(call) :
              IF o.code = 201
              THEN /\ GoOn(o)
                   /\ team_calls' = (team_calls (-) SetToBag({call}))
                          (+) SetToBag({[call EXCEPT !.at = "refresh",
                                                     !.joined_at = o.store.clock]})
              ELSE /\ Answer(call.op, o)
                   /\ team_calls' = team_calls (-) SetToBag({call})
    /\ UNCHANGED calls

\* An add call that committed refreshes its row and answers (lines 126-127).
AddUserRefresh ==
    /\ Idle
    /\ \E call \in BagToSet(team_calls) :
         /\ call.op = "add_user_to_team"
         /\ call.at = "refresh"
         /\ \E o \in add_user_to_team_refresh(call) : Answer(call.op, o)
         /\ team_calls' = team_calls (-) SetToBag({call})
    /\ UNCHANGED calls

\* remove_user_from_team arrives and runs _ensure_team_admin (line 139).
RemoveUserRequest ==
    /\ Idle
    /\ \E user_id \in Users, team_id \in Teams, current_user \in Users :
         LET raised == _ensure_team_admin(current_user, team_id) IN
         IF raised # None
         THEN /\ Answer("remove_user_from_team", raised[1])
              /\ UNCHANGED team_calls
         ELSE /\ Room(team_calls)
              /\ team_calls' = team_calls (+) SetToBag({
                     TeamCall("remove_user_from_team", "delete", user_id, team_id,
                              "member", 0, MembershipExists(user_id, team_id))})
              /\ UNCHANGED <<users, user_teams, tickets, next_id, clock, resp>>
    /\ UNCHANGED calls

\* A remove call deletes the rows of the pair, commits and answers (lines
\* 140-148).
RemoveUserDelete ==
    /\ Idle
    /\ \E call \in BagToSet(team_calls) :
         /\ call.op = "remove_user_from_team"
         /\ call.at = "delete"
         /\ Answer(call.op, remove_user_from_team_delete(call))
         /\ team_calls' = team_calls (-) SetToBag({call})
    /\ UNCHANGED calls

\* update_my_availability arrives with current_user loaded (lines 92-96).
UpdateAvailabilityRequest ==
    /\ Idle
    /\ Room(team_calls)
    /\ \E is_available \in BOOLEAN, current_user \in Users :
         team_calls' = team_calls (+) SetToBag({
             AvailabilityCall("write", current_user, is_available,
                              users[current_user].is_available)})
    /\ UNCHANGED <<users, user_teams, tickets, next_id, clock, resp, calls>>

\* An availability call assigns and commits (lines 97-98).
UpdateAvailabilityCommit ==
    /\ Idle
    /\ \E call \in BagToSet(team_calls) :
         /\ call.op = "update_my_availability"
         /\ call.at = "write"
         /\ GoOn(update_my_availability_commit(call))
         /\ team_calls' = (team_calls (-) SetToBag({call}))
                               (+) SetToBag({[call EXCEPT !.at = "refresh"]})
    /\ UNCHANGED calls

\* An availability call that committed refreshes its row and answers (lines
\* 99-100).
UpdateAvailabilityRefresh ==
    /\ Idle
    /\ \E call \in BagToSet(team_calls) :
         /\ call.op = "update_my_availability"
         /\ call.at = "refresh"
         /\ Answer(call.op, update_my_availability_refresh(call))
         /\ team_calls' = team_calls (-) SetToBag({call})
    /\ UNCHANGED calls

\* The ticket repository over a store whose memberships and availability stand.
Next ==
    \/ CreateTicketRequest
    \/ LoadTicket
    \/ UpdateStatusRequest
    \/ UpdateStatusCommit
    \/ LeaveFeedbackRequest
    \/ LeaveFeedbackCommit
    \/ UpdateAssigneeRequest
    \/ DeleteTicketRequest
    \/ DeleteTicketCommit
    \/ Deliver

Spec == Init /\ [][Next]_vars

\* The membership handlers of the team router.
TeamNext ==
    \/ AddUserRequest
    \/ AddUserQuery
    \/ AddUserInsert
    \/ AddUserRefresh
    \/ RemoveUserRequest
    \/ RemoveUserDelete
    \/ Deliver

TeamSpec == Init /\ [][TeamNext]_vars

\* The availability handler of the team router.
AvailabilityNext ==
    \/ UpdateAvailabilityRequest
    \/ UpdateAvailabilityCommit
    \/ UpdateAvailabilityRefresh
    \/ Deliver

AvailabilitySpec == Init /\ [][AvailabilityNext]_vars

\* ======================================================= properties

\* The tickets present before and after a step.
Kept == DOMAIN tickets \cap DOMAIN tickets'

\* The call leaves the stretch it stands before in this step.
MovesOn(call) == CopiesIn(call, calls') < CopiesIn(call, calls)

\* ------------------------------------------------------- C1
\* C1: every existing ticket has closed_at non-null exactly when its status is
\* closed.
C1_ClosedAtIffClosed ==
    \A t \in DOMAIN tickets :
        (tickets[t].closed_at # None) <=> (tickets[t].status = "closed")

\* ------------------------------------------------------- C2
\* The steps the status may take.
StatusSteps == {<<"open", "in_progress">>, <<"in_progress", "closed">>}

C2_RejectsOtherEdges ==
    Idle =>
    \A ticket_id \in TicketIdInputs, project_id \in ProjectIds,
       status \in TicketStatus, current_user \in Users :
        LET found == QueryTicket(ticket_id, project_id) IN
        (/\ found # None
         /\ found[1].assigned_to = Some(current_user)
         /\ <<found[1].status, status>> \notin StatusSteps)
        => \E detail \in {"Cannot go from " \o found[1].status \o " to " \o status} :
              update_ticket_status_by_assignee_checks(
                  ticket_id, project_id, status, current_user)
                  = Some(Raise(400, detail))

C2_OnlySteps ==
    \A t \in Kept :
        tickets'[t].status # tickets[t].status
        => <<tickets[t].status, tickets'[t].status>> \in StatusSteps

\* C2: a ticket's status only ever moves open -> in_progress or in_progress ->
\* closed, and the assignee's request for any other edge (self-transition, skip,
\* reversal, anything out of closed) is answered 400 with the store untouched.
C2_StatusMachine == [] C2_RejectsOtherEdges /\ [][C2_OnlySteps]_vars

\* ------------------------------------------------------- C3
\* C3: reassigning an existing ticket to a user whose is_available is false is
\* answered 400, whatever project role the target holds, and the assignee stays.
C3_UnavailableIsBadRequest ==
    Idle =>
    \A ticket_id \in TicketIdInputs, assigned_to \in Users, project_id \in ProjectIds :
        (QueryTicket(ticket_id, project_id) # None /\ ~users[assigned_to].is_available)
        => \A o \in update_ticket_assignee(ticket_id, assigned_to, project_id) :
               o.code = 400 /\ o.store = Store

\* ------------------------------------------------------- C4
C4_RejectsBeforeClose ==
    Idle =>
    \A ticket_id \in TicketIdInputs, project_id \in ProjectIds, current_user \in Users :
        LET found == QueryTicket(ticket_id, project_id) IN
        (/\ found # None
         /\ found[1].created_by = current_user
         /\ found[1].status \in {"open", "in_progress"})
        => leave_feedback_by_creator_checks(ticket_id, project_id, current_user)
               = Some(Raise(400, "Feedback only after close"))

C4_FeedbackOnlyOnClosed ==
    \A t \in DOMAIN tickets :
        (\/ tickets[t].feedback # TicketDefaults.feedback
         \/ tickets[t].confirmed # TicketDefaults.confirmed)
        => tickets[t].status = "closed"

\* C4: the creator's feedback on an open or in_progress ticket is answered 400
\* with feedback, confirmed and updated_at untouched; so a ticket's feedback and
\* confirmed differ from their creation-time values only if it is closed.
C4_FeedbackAfterClose == C4_RejectsBeforeClose /\ C4_FeedbackOnlyOnClosed

\* ------------------------------------------------------- C5
\* A worker-type request with no explicit worker team.
WorkerRequests == {ti \in TicketCreate : ti.type = "worker" /\ ti.worker_team_id = None}

\* The team create_ticket settles on exists.
TeamResolvable(ticket_in, user_id, team_id) ==
    LET eff == EffectiveTeam(team_id, ticket_in) IN
    IF eff = None THEN TeamsOfUser(user_id) # {} /\ TeamsOfUser(user_id) \subseteq Teams
    ELSE eff[1] \in Teams

\* What C5 says of one request, given its outcomes.
WorkerDefaultApplied(project_id, outcomes) ==
    IF TruthyInt(ProjectWorkerTeam[project_id])
    THEN \A o \in outcomes :
             o.code = 201 =>
                 o.store.tickets[next_id].worker_team_id = ProjectWorkerTeam[project_id]
    ELSE \A o \in outcomes : o.code = 400 /\ o.store = Store

\* C5 as claimed: for a project member with a resolvable team, a worker-type
\* request with no explicit worker team gets the project's worker team, and with
\* none configured is answered 400 and creates nothing.
C5_AsClaimed ==
    (Idle /\ next_id <= MaxTickets) =>
    \A ticket_in \in WorkerRequests, user_id \in Users,
       project_id \in ProjectIds, team_id \in TeamOverrides :
        (ProjectLinks(user_id, project_id) # {}
         /\ TeamResolvable(ticket_in, user_id, team_id))
        => WorkerDefaultApplied(project_id,
               create_ticket(ticket_in, user_id, project_id, team_id))

\* C5 amended: the same, for requests whose assignee name is absent, empty or
\* matches a member of the project.
C5_WorkerTeamDefault ==
    (Idle /\ next_id <= MaxTickets) =>
    \A ticket_in \in WorkerRequests, user_id \in Users,
       project_id \in ProjectIds, team_id \in TeamOverrides :
        (/\ ProjectLinks(user_id, project_id) # {}
         /\ TeamResolvable(ticket_in, user_id, team_id)
         /\ _resolve_assignee(ticket_in.assigned_to_name, project_id) # {})
        => WorkerDefaultApplied(project_id,
               create_ticket(ticket_in, user_id, project_id, team_id))

\* A worker-type ticket stands with the worker team of its project, read back
\* and answered 201.
C5_Witness ==
    /\ resp.op = "create_ticket"
    /\ resp.code = 201
    /\ \E t \in DOMAIN tickets :
          /\ tickets[t].type = "worker"
          /\ tickets[t].worker_team_id = ProjectWorkerTeam[tickets[t].project_id]
          /\ tickets[t].worker_team_id = Some(7)

\* ------------------------------------------------------- C6
\* No add_user_to_team call that a team admin made for a pair that had a row
\* gets past its query for the row (lines 115-117): it is answered 400 there.
C6_RejectsDuplicate ==
    \A call \in BagToSet(team_calls) :
        (call.op = "add_user_to_team" /\ call.had_row) => call.at = "query"

C6_OneRowPerPair ==
    \A user_id \in Users, team_id \in Teams :
        Cardinality(Memberships(user_id, team_id)) <= 1

\* C6: a team admin adding a (user, team) pair that already has a membership is
\* answered 400 with the membership rows as they are; so no pair ever has more
\* than one UserTeam row.
C6_UniqueMembership == C6_RejectsDuplicate /\ C6_OneRowPerPair

\* ------------------------------------------------------- C7
\* Requests that name no team, by an actor with no team membership.
NoTeamOutcomes ==
    UNION {create_ticket(ticket_in, user_id, project_id, None) :
              ticket_in \in {ti \in TicketCreate : ti.team_id = None},
              user_id \in {u \in Users : TeamsOfUser(u) = {}},
              project_id \in ProjectIdInputs}

\* C7 as claimed: such a request is answered 404 and creates no ticket.
C7_AsClaimed ==
    (Idle /\ next_id <= MaxTickets) =>
    \A o \in NoTeamOutcomes : o.code = 404 /\ o.store = Store

\* C7 amended: such a request is answered 400 ("Team ID must be provided") and
\* creates no ticket.
C7_NoTeamIsBadRequest ==
    (Idle /\ next_id <= MaxTickets) =>
    /\ NoTeamOutcomes # {}
    /\ \A o \in NoTeamOutcomes : o.code = 400 /\ o.store = Store

C7_Witness ==
    /\ resp.op = "create_ticket"
    /\ resp.code = 400
    /\ resp.detail = "Team ID must be provided"
    /\ tickets = << >>

\* ------------------------------------------------------- C8
\* The checks of a status call by anyone but the ticket's assignee end in 403,
\* whatever the status asked for, and nothing is written.
C8_RejectsNonAssignee ==
    Idle =>
    \A ticket_id \in TicketIdInputs, project_id \in ProjectIds,
       status \in TicketStatus, current_user \in Users :
        LET found == QueryTicket(ticket_id, project_id) IN
        (found # None /\ found[1].assigned_to # Some(current_user))
        => update_ticket_status_by_assignee_checks(
               ticket_id, project_id, status, current_user)
               = Some(Raise(403, "Only assignee can update"))

\* Every status call that stands before its write was made by the assignee of
\* its ticket.
C8_WritersAreAssignees ==
    \A call \in BagToSet(calls) :
        (/\ call.op = "update_ticket_status_by_assignee"
         /\ call.at = "write"
         /\ call.ticket_id \in DOMAIN tickets)
        => tickets[call.ticket_id].assigned_to = Some(call.current_user)

\* A step that changes a ticket's status is the write of a status call on that
\* ticket, made by the ticket's assignee, to the status the call asked for.
C8_ChangedByAssignee ==
    \A t \in Kept :
        tickets'[t].status # tickets[t].status
        => \E call \in BagToSet(calls) :
              /\ call.op = "update_ticket_status_by_assignee"
              /\ call.at = "write"
              /\ call.ticket_id = t
              /\ MovesOn(call)
              /\ tickets[t].assigned_to = Some(call.current_user)
              /\ tickets'[t].assigned_to = Some(call.current_user)
              /\ tickets'[t].status = call.status

\* C8: a status request by anyone who is not the ticket's current assignee (the
\* creator, a project admin, anyone when there is no assignee) is answered 403,
\* legal transition or not, with the ticket untouched; so every change of a
\* ticket's status is the work of a call made by its assignee of that moment.
C8_AssigneeOnly ==
    /\ [] (C8_RejectsNonAssignee /\ C8_WritersAreAssignees)
    /\ [][C8_ChangedByAssignee]_vars

\* A status call by a user who is not the assignee is answered 403 on a ticket
\* whose status its assignee has changed, while another call of the assignee
\* stands before its write.
C8_Witness ==
    /\ resp.op = "update_ticket_status_by_assignee"
    /\ resp.code = 403
    /\ \E t \in DOMAIN tickets :
          /\ tickets[t].assigned_to # None
          /\ tickets[t].status = "in_progress"
          /\ \E call \in BagToSet(calls) :
                /\ call.op = "update_ticket_status_by_assignee"
                /\ call.at = "write"
                /\ call.ticket_id = t

\* ------------------------------------------------------- C9
\* What the write of a feedback call leaves in its ticket's row.
C9_CommitWrites ==
    \A call \in BagToSet(calls) :
        (/\ call.op = "leave_feedback_by_creator"
         /\ call.at = "write"
         /\ MovesOn(call)
         /\ call.ticket_id \in Kept)
        => /\ tickets'[call.ticket_id].confirmed = call.update.confirmed
           /\ tickets'[call.ticket_id].feedback =
                  IF call.update.feedback \in {None, Some("")}
                  THEN tickets[call.ticket_id].feedback
                  ELSE call.update.feedback

\* C9: the creator's feedback on a closed ticket, when it is written, sets
\* confirmed to the value given, sets feedback to the value given when that is
\* a non-empty string, and keeps the ticket's feedback when it is absent or empty.
C9_FeedbackWrite == [][C9_CommitWrites]_vars

\* ------------------------------------------------------- C10
C10_NeverSucceeds ==
    Idle =>
    \A ticket_id \in TicketIdInputs, assigned_to \in AssigneeInputs,
       project_id \in ProjectIds :
        \A o \in update_ticket_assignee(ticket_id, assigned_to, project_id) :
            o.code \in {403, 404} /\ o.store = Store

C10_UnassignedStaysOpen ==
    \A t \in DOMAIN tickets :
        tickets[t].assigned_to = None => tickets[t].status = "open"

C10_AssigneeFixed ==
    \A t \in Kept : tickets'[t].assigned_to = tickets[t].assigned_to

\* C10: with one ProjectUser row per (user, project), update_ticket_assignee
\* never succeeds (it ends in 404 or 403 and never reaches the availability
\* check); so a ticket's assigned_to never changes after creation and a ticket
\* created without an assignee stays open for as long as it exists.
C10_ReassignNeverSucceeds ==
    /\ [] (C10_NeverSucceeds /\ C10_UnassignedStaysOpen)
    /\ [][C10_AssigneeFixed]_vars

C10_Witness ==
    /\ resp.op = "update_ticket_assignee"
    /\ resp.code = 403
    /\ resp.detail = "Must be member or worker"
    /\ \E t \in DOMAIN tickets : tickets[t].assigned_to = None

====
